---------------------------- MODULE Spec2Model ----------------------------
(***************************************************************************)
(* Model of IudeenProto (src/app/protocols/my_proto.py): the per-connection *)
(* adapter between an asyncio transport, the websockets sans-I/O codec      *)
(* (ServerConnection) and an ASGI application.                              *)
(*                                                                          *)
(* The adapter's own fields keep their source names (queue,                 *)
(* handshake_complete, close_sent, writable, read_paused).  The two         *)
(* collaborators are modelled by what the adapter can observe of them:      *)
(*   codec      cstate (conn.state), cout (the chunks conn.data_to_send()   *)
(*              would return), peer_closed (a close frame was parsed, the   *)
(*              codec discards what follows);                               *)
(*   transport  tclosing (is_closing()), closeCalls (calls of close()),     *)
(*              written (the chunks handed to write(), in order).           *)
(* Codec facts used (websockets, sans-I/O server connection):               *)
(*   - send_response(101) moves CONNECTING -> OPEN and buffers the bytes;   *)
(*   - send_text / send_binary / send_close raise InvalidState unless the   *)
(*     state is OPEN; send_close moves OPEN -> CLOSING;                     *)
(*   - a parsed close frame in OPEN buffers the echo and moves to CLOSING;  *)
(*   - a parsed ping in OPEN buffers a pong;                                *)
(*   - data_to_send() returns the buffered chunks as a list and empties     *)
(*     the buffer.                                                          *)
(* Transport facts used (asyncio): close() stops data_received; write() of  *)
(* something that is not bytes-like raises TypeError; pause_writing() is    *)
(* called from inside write() when the buffer crosses the high-water mark.  *)
(***************************************************************************)
EXTENDS Integers, Sequences, FiniteSets, TLC

\* ------------------------------------------------------------------ bounds
MaxSteps == 6       \* transport callbacks, shutdown() calls and application calls
MaxPayload == 1     \* distinct text payloads 1..MaxPayload

VARIABLES
    phase,               \* "new" | "made" | "lost": connection_made / connection_lost seen
    handshake_complete,  \* self.handshake_complete
    close_sent,          \* self.close_sent
    queue,               \* self.queue (asyncio.Queue), head first
    writable,            \* self.writable.is_set()
    read_paused,         \* self.read_paused
    cstate,              \* self.conn.state
    cout,                \* self.conn's pending output (data_to_send())
    peer_closed,         \* the codec parsed a close frame
    tclosing,            \* self.transport.is_closing()
    closeCalls,          \* number of self.transport.close() calls
    written,             \* chunks passed to self.transport.write(), in order
    app,                 \* "none" | "running" | "done": the run_asgi task
    rcv,                 \* "idle" | "blocked": the application's receive() call
    waiting,             \* send() calls suspended in writable.wait(), oldest first
    woken,               \* send() calls whose wait was resolved by set(), oldest first
    nextId,              \* id of the next send() call
    delivered,           \* history: events returned by receive()
    last,                \* history: how the latest finished send() call ended
    closeIssued,         \* history: a send() took a 'websocket.close' message
    steps,               \* history: callbacks and calls so far
    nShut,               \* history: shutdown() calls so far
    list_ok,             \* whether transport.write() accepts the codec's list of chunks
    tasks,               \* self.tasks (server_state.tasks): the registered tasks
    ended,               \* how the run_asgi task ended: "no" | "raise" | "none" | "value"
    discards,            \* history: on_task_complete calls so far
    ev,                  \* history: the latest protocol event handle_events() took
    puts,                \* history: every event put on self.queue, in order
    lossRecv             \* history: the receive() that was blocked at an abrupt loss

vars == <<phase, handshake_complete, close_sent, queue, writable, read_paused,
          cstate, cout, peer_closed, tclosing, closeCalls, written, app, rcv,
          waiting, woken, nextId, delivered, last, closeIssued,
          steps, nShut, list_ok, tasks, ended, discards, ev, puts, lossRecv>>

\* ------------------------------------------------------------- vocabulary
\* Inbound events (the dicts put on self.queue).  code "absent": the dict has
\* no "code" key; "None": the key is present with value None.
Ev(type, code, data) == [type |-> type, code |-> code, data |-> data]
EvConnect == Ev("websocket.connect", "absent", 0)
EvReceive(d) == Ev("websocket.receive", "absent", d)
EvDisconnect(code) == Ev("websocket.disconnect", code, 0)

\* Codec output chunks; sid is the send() call that made the codec produce it
\* (0: produced by the codec on its own or for a handler).
Chunk(kind, sid) == [kind |-> kind, sid |-> sid]

MessageTypes == {"websocket.accept", "websocket.close", "websocket.send", "other"}
Intents ==
    [type : MessageTypes \ {"websocket.send"}, payload : {"none"}]
        \cup [type : {"websocket.send"}, payload : {"text", "bytes", "none"}]

\* The value of `last` before any send() call has finished.
NoCall ==
    [id |-> 0, type |-> "none", payload |-> "none", result |-> "none",
     codec |-> "none", branch |-> "none", resumed |-> FALSE, wrote |-> 0,
     enq |-> 0, flags |-> FALSE, closes |-> 0, afterClose |-> FALSE,
     lost |-> FALSE, peer |-> FALSE, shut |-> FALSE]

\* The value of `ev` before any protocol event was handled.
NoEvent ==
    [kind |-> "none", d |-> 0, closed |-> FALSE, open |-> FALSE, enq |-> <<>>,
     wrote |-> 0, spawned |-> FALSE]

\* self.queue.put_nowait(...): the events a step has put are those behind
\* the ones the queue held before it.
PutsTrack == puts' = puts \o SubSeq(queue', Len(queue) + 1, Len(queue'))

\* One more transport callback, shutdown() call or application call.
Step == steps < MaxSteps /\ steps' = steps + 1

Init ==
    /\ phase = "new"
    /\ handshake_complete = FALSE
    /\ close_sent = FALSE
    /\ queue = <<>>
    /\ writable = TRUE
    /\ read_paused = FALSE
    /\ cstate = "CONNECTING"
    /\ cout = <<>>
    /\ peer_closed = FALSE
    /\ tclosing = FALSE
    /\ closeCalls = 0
    /\ written = <<>>
    /\ app = "none"
    /\ rcv = "idle"
    /\ waiting = <<>>
    /\ woken = <<>>
    /\ nextId = 1
    /\ delivered = <<>>
    /\ last = NoCall
    /\ closeIssued = FALSE
    /\ steps = 0
    /\ nShut = 0
    /\ list_ok = FALSE
    /\ tasks = {}
    /\ ended = "no"
    /\ discards = 0
    /\ ev = NoEvent
    /\ puts = <<>>
    /\ lossRecv = "none"


\* ------------------------------------------------------------ transport
\* self.transport.write(...) of `chunks` by handler `by` (caller: the id of the
\* send() call, 0 for a transport callback).  k is the chunk whose write makes
\* the transport call pause_writing() (0: the high-water mark is not crossed);
\* each log entry keeps the gate and is_closing() as they were at that write,
\* whether this code had called transport.close() before, whether it is the
\* first chunk of the call and whether the call had been suspended on the gate.
Written(log, chunks, by, caller, k) ==
    log \o [j \in 1..Len(chunks) |->
              [kind |-> chunks[j].kind, sid |-> chunks[j].sid, by |-> by,
               caller |-> caller,
               first |-> j = 1,
               resumed |-> caller # 0 /\ caller # nextId,
               gate |-> writable /\ (k = 0 \/ j <= k),
               closing |-> tclosing,
               closed |-> closeCalls > 0]]

\* pause_writing(): self.writable.clear(), called from inside a write.
pause_writing(w, k) == w /\ k = 0

\* The chunks whose write may cross the high-water mark: none once the
\* transport is closing or lost (it buffers nothing more).
PauseAt(chunks) == IF tclosing \/ phase # "made" THEN {0} ELSE 0..Len(chunks)

\* ------------------------------------------------------------ connection
\* connection_made(transport).  The transport is an asyncio transport, whose
\* write() raises TypeError on a list, or one that takes the codec's list
\* (the contract the adapter's list writes assume).
connection_made(ok) ==
    /\ phase = "new"
    /\ Step
    /\ phase' = "made"
    /\ list_ok' = ok
    /\ UNCHANGED <<handshake_complete, close_sent, queue, writable, read_paused,
                   cstate, cout, peer_closed, tclosing, closeCalls, written, app,
                   rcv, waiting, woken, nextId, delivered, last, closeIssued, nShut,
                   tasks, ended, discards, ev, puts, lossRecv>>

\* Mutant of LostEnqueues: the abrupt loss puts no event.
LostNeverEnqueues(abrupt) == FALSE

\* connection_lost(exc): line 74, the disconnect event is put only if exc is
\* not None.
LostEnqueues(abrupt) == abrupt

\* connection_lost(exc): line 82, close() is called only if exc is None.
LostCloses(abrupt) == ~abrupt

connection_lost(abrupt) ==
    /\ phase = "made"
    /\ Step
    /\ phase' = "lost"
    /\ queue' = IF LostEnqueues(abrupt)
                THEN Append(queue, EvDisconnect("absent")) ELSE queue
    /\ closeCalls' = IF LostCloses(abrupt) THEN closeCalls + 1 ELSE closeCalls
    /\ tclosing' = TRUE
    /\ lossRecv' = IF abrupt /\ rcv = "blocked" /\ queue = <<>> /\ lossRecv = "none"
                   THEN "pending" ELSE lossRecv
    /\ UNCHANGED <<handshake_complete, close_sent, writable, read_paused, cstate,
                   cout, peer_closed, written, app, rcv, waiting, woken, nextId,
                   delivered, last, closeIssued, nShut, list_ok, tasks, ended,
                   discards, ev>>
    /\ PutsTrack

\* resume_writing(): self.writable.set(); Event.set() resolves the futures of
\* the suspended wait() calls in the order they were made.
resume_writing ==
    /\ phase = "made"
    /\ ~writable
    /\ Step
    /\ writable' = TRUE
    /\ woken' = woken \o waiting
    /\ waiting' = <<>>
    /\ UNCHANGED <<phase, handshake_complete, close_sent, queue, read_paused,
                   cstate, cout, peer_closed, tclosing, closeCalls, written, app,
                   rcv, nextId, delivered, last, closeIssued, nShut, list_ok,
                   tasks, ended, discards, ev, puts, lossRecv>>

\* shutdown(): put the disconnect, send_close (InvalidState unless the codec
\* is OPEN), write the codec's list (TypeError on an asyncio transport), close.
shutdown ==
    /\ phase = "made"
    /\ Step
    /\ nShut' = nShut + 1
    /\ queue' = Append(queue, EvDisconnect("1012"))
    /\ IF cstate # "OPEN"
       THEN UNCHANGED <<cstate, cout, written, writable, tclosing, closeCalls>>
       ELSE /\ cstate' = "CLOSING"
            /\ cout' = <<>>
            /\ IF list_ok
               THEN LET out == Append(cout, Chunk("close", 0)) IN
                    \E k \in {0, Len(out)} \cap PauseAt(out) :
                        /\ written' = Written(written, out, "shutdown", 0, k)
                        /\ writable' = pause_writing(writable, k)
                        /\ tclosing' = TRUE
                        /\ closeCalls' = closeCalls + 1
               ELSE UNCHANGED <<written, writable, tclosing, closeCalls>>
    /\ UNCHANGED <<phase, handshake_complete, close_sent, read_paused, peer_closed,
                   app, rcv, waiting, woken, nextId, delivered, last, closeIssued,
                   list_ok, tasks, ended, discards, ev, lossRecv>>
    /\ PutsTrack

\* --------------------------------------------------------- event handlers
\* The protocol events conn.events_received() can yield in the codec's state.
\* The codec discards input after a close frame.
EventKinds ==
    IF peer_closed THEN {}
    ELSE IF cstate = "CONNECTING" THEN {"request"}
    ELSE IF cstate = "OPEN" THEN {"text", "binary", "ping", "close"}
    ELSE {"text", "binary", "close"}

\* handle_events(): which handler an event is routed to (lines 103-108).
\* There is no branch for a binary frame or a ping.
Dispatch(kind) ==
    CASE kind = "request" -> "handle_connect"
      [] kind = "text" -> "handle_text"
      [] kind = "close" -> "handle_close"
      [] OTHER -> "none"

\* Mutant of SpawnRegisters: the spawned task is not added to self.tasks.
SpawnForgets == FALSE

\* handle_connect(): line 163, the spawned task is added to self.tasks.
SpawnRegisters == TRUE

\* handle_connect(event): accept() and send_response() leave the 101 response
\* in the codec's buffer, the connect event is put, run_asgi is spawned with
\* on_task_complete as its done callback and added to self.tasks.
handle_connect ==
    /\ cstate' = "OPEN"
    /\ cout' = Append(cout, Chunk("resp101", 0))
    /\ queue' = Append(queue, EvConnect)
    /\ app' = "running"
    /\ tasks' = IF SpawnRegisters THEN tasks \cup {"run_asgi"} ELSE tasks
    /\ UNCHANGED <<written, writable, tclosing, closeCalls, peer_closed>>

\* handle_text(event): put the receive event, then write what the codec holds.
handle_text(d) ==
    /\ queue' = Append(queue, EvReceive(d))
    /\ \E k \in PauseAt(cout) :
           /\ written' = Written(written, cout, "handle_text", 0, k)
           /\ writable' = pause_writing(writable, k)
    /\ cout' = <<>>
    /\ UNCHANGED <<cstate, tclosing, closeCalls, peer_closed, app, tasks>>

\* handle_close(event): conn.state.CLOSING is a member of the State enum, hence
\* true in every state; the codec has echoed the close frame if it was OPEN.
handle_close ==
    LET out == IF cstate = "OPEN" THEN Append(cout, Chunk("close", 0)) ELSE cout IN
    /\ cstate' = "CLOSING"
    /\ peer_closed' = TRUE
    /\ \E k \in PauseAt(out) :
           /\ written' = Written(written, out, "handle_close", 0, k)
           /\ writable' = pause_writing(writable, k)
    /\ cout' = <<>>
    /\ queue' = Append(queue, EvDisconnect("1005"))
    /\ tclosing' = TRUE
    /\ closeCalls' = closeCalls + 1
    /\ UNCHANGED <<app, tasks>>

\* An event no handler takes: only the codec acts (a pong for a ping).
handle_none(kind) ==
    /\ cout' = IF kind = "ping" THEN Append(cout, Chunk("pong", 0)) ELSE cout
    /\ UNCHANGED <<queue, written, writable, cstate, tclosing, closeCalls,
                   peer_closed, app, tasks>>

\* handle_events() for one protocol event of the codec (lines 100-108).
handle_events(kind, d) ==
    /\ kind \in EventKinds
    /\ Step
    /\ CASE Dispatch(kind) = "handle_connect" -> handle_connect
         [] Dispatch(kind) = "handle_text" -> handle_text(d)
         [] Dispatch(kind) = "handle_close" -> handle_close
         [] OTHER -> handle_none(kind)
    /\ ev' = [kind |-> kind,
              d |-> IF kind \in {"text", "binary"} THEN d ELSE 0,
              closed |-> tclosing,
              open |-> cstate = "OPEN",
              enq |-> SubSeq(queue', Len(queue) + 1, Len(queue')),
              wrote |-> Len(written') - Len(written),
              spawned |-> app' # app]
    /\ PutsTrack
    /\ UNCHANGED <<phase, handshake_complete, close_sent, read_paused, rcv,
                   waiting, woken, nextId, delivered, last, closeIssued, nShut,
                   list_ok, ended, discards, lossRecv>>

\* data_received(data): conn.receive_data(data), then handle_events().  One
\* call is modelled per protocol event; a closing transport reads no more.
data_received(kind, d) ==
    /\ phase = "made"
    /\ ~tclosing
    /\ ~read_paused
    /\ handle_events(kind, d)

\* ------------------------------------------------------------ application
\* Mutant of QueueGet: the newest event is taken first.
QueueGetNewest(q) == [item |-> q[Len(q)], rest |-> SubSeq(q, 1, Len(q) - 1)]

\* await self.queue.get() on a queue that holds an event (line 314):
\* asyncio.Queue is first in, first out.
QueueGet(q) == [item |-> Head(q), rest |-> Tail(q)]

\* receive(), line 315: self.read_paused and self.queue.empty().
ResumeDue(paused, rest) == paused /\ rest = <<>>

\* receive(): the event returned is the head of the queue; reads are resumed
\* if they were paused and the queue is now empty (lines 314-318).
ReceiveTake ==
    LET got == QueueGet(queue) IN
    /\ delivered' = Append(delivered, got.item)
    /\ queue' = got.rest
    /\ read_paused' = IF ResumeDue(read_paused, got.rest) THEN FALSE ELSE read_paused
    /\ lossRecv' = IF lossRecv = "pending"
                   THEN (IF got.item = EvDisconnect("absent")
                         THEN "disconnect_no_code" ELSE "other_event")
                   ELSE lossRecv

\* The application calls receive(): Queue.get() returns at once if the queue
\* holds an event, and suspends otherwise.
receive_call ==
    /\ app = "running"
    /\ rcv = "idle"
    /\ Step
    /\ IF queue # <<>>
       THEN ReceiveTake /\ UNCHANGED rcv
       ELSE rcv' = "blocked" /\ UNCHANGED <<delivered, queue, read_paused, lossRecv>>
    /\ UNCHANGED <<phase, handshake_complete, close_sent, writable, cstate, cout,
                   peer_closed, tclosing, closeCalls, written, app, waiting, woken,
                   nextId, last, closeIssued, nShut, list_ok, tasks, ended,
                   discards, ev, puts>>

\* The suspended receive() is resumed after a put_nowait().
receive_wake ==
    /\ rcv = "blocked"
    /\ queue # <<>>
    /\ ReceiveTake
    /\ rcv' = "idle"
    /\ UNCHANGED steps
    /\ UNCHANGED <<phase, handshake_complete, close_sent, writable, cstate, cout,
                   peer_closed, tclosing, closeCalls, written, app, waiting, woken,
                   nextId, last, closeIssued, nShut, list_ok, tasks, ended,
                   discards, ev, puts>>

\* send(): which of the three branches a message takes (lines 232, 264, 309).
SendBranch(hc, cs) ==
    IF ~hc THEN "handshake" ELSE IF ~cs THEN "open" ELSE "after_close"

\* Mutant of HandshakeAccepts: the handshake window refuses nothing.
HandshakeAcceptsAll(type) == TRUE

\* send(): the message types the handshake window takes (lines 233, 243).
HandshakeAccepts(type) == type \in {"websocket.accept", "websocket.close"}

\* Mutant of OpenCloseSets: the close branch of the OPEN state leaves
\* close_sent as it was.
OpenCloseForgets == FALSE

\* send(): the flag the close branch of the OPEN state sets (line 293).
OpenCloseSets == TRUE

\* send(): lines 288 and 298, the codec's bytes are written only if the
\* transport is not closing.
FlushAllowed(closing) == ~closing

\* The adapter and collaborator fields a send() call can change, with how the
\* call ended (result) and the codec call it made (codec).
Before ==
    [hc |-> handshake_complete, cs |-> close_sent, q |-> queue, cst |-> cstate,
     co |-> cout, wr |-> written, wa |-> writable, tc |-> tclosing,
     cc |-> closeCalls, result |-> "ok", codec |-> "none"]

Raise(b, err) == [b EXCEPT !.result = err]

\* for data in self.conn.data_to_send(): self.transport.write(data)
FlushLoop(b, id) ==
    { [b EXCEPT !.wr = Written(b.wr, b.co, "send", id, k),
                !.wa = pause_writing(b.wa, k),
                !.co = <<>>] : k \in PauseAt(b.co) }

\* self.transport.write(self.conn.data_to_send()); self.transport.close()
WriteListAndClose(b, id) ==
    IF list_ok
    THEN { [b EXCEPT !.wr = Written(b.wr, b.co, "send", id, k),
                     !.wa = pause_writing(b.wa, k),
                     !.co = <<>>,
                     !.tc = TRUE,
                     !.cc = b.cc + 1] : k \in {0, Len(b.co)} \cap PauseAt(b.co) }
    ELSE { Raise([b EXCEPT !.co = <<>>], "TypeError_write") }

\* Mutant of RejectCompletes: the reject branch sets close_sent alone.
RejectLeavesOpen == FALSE

\* send(), line 250: the reject branch sets handshake_complete.
RejectCompletes == TRUE

\* send(), handshake not complete (lines 232-262).
SendHandshake(b, m, id) ==
    IF ~HandshakeAccepts(m.type)
    THEN { Raise(b, "RuntimeError_handshake") }
    ELSE IF m.type = "websocket.accept"
    THEN FlushLoop([b EXCEPT !.hc = TRUE], id)
    ELSE WriteListAndClose(
             [b EXCEPT !.q = Append(b.q, EvDisconnect("None")),
                       !.hc = RejectCompletes,
                       !.cs = TRUE,
                       !.co = Append(b.co, Chunk("resp403", id)),
                       !.codec = "reject"], id)

\* Mutant of SendData: a message without data is sent as an empty text.
SendDataLax(payload) == IF payload = "bytes" THEN "send_binary" ELSE "send_text"

\* send(), lines 266-286: data is the "bytes" entry if there is one and the
\* "text" entry otherwise; a str goes to send_text, bytes go to send_binary
\* and a message with neither raises TypeError("data is a dict-like object").
SendData(payload) ==
    IF payload = "text" THEN "send_text"
    ELSE IF payload = "bytes" THEN "send_binary"
    ELSE "TypeError"

\* send(), handshake complete and close not sent (lines 264-307).
SendOpen(b, m, id) ==
    IF m.type = "websocket.send"
    THEN IF SendData(m.payload) = "TypeError"
         THEN { Raise(b, "TypeError") }
         ELSE LET call == SendData(m.payload)
                  b1 == [b EXCEPT !.codec = call]
              IN  IF b.cst # "OPEN"
                  THEN { Raise(b1, "InvalidState") }
                  ELSE LET b2 == [b1 EXCEPT !.co = Append(b.co, Chunk("frame", id))]
                       IN  IF FlushAllowed(b.tc) THEN FlushLoop(b2, id) ELSE { b2 }
    ELSE IF m.type = "websocket.close"
    THEN LET b1 == [b EXCEPT !.cs = OpenCloseSets,
                             !.q = Append(b.q, EvDisconnect("1000")),
                             !.codec = "send_close"]
         IN  IF b.cst # "OPEN"
             THEN { Raise(b1, "InvalidState") }
             ELSE LET b2 == [b1 EXCEPT !.cst = "CLOSING",
                                       !.co = Append(b.co, Chunk("close", id))]
                  IN  IF FlushAllowed(b.tc) THEN WriteListAndClose(b2, id) ELSE { b2 }
    ELSE { Raise(b, "RuntimeError_open") }

\* send() past the gate: the ways the call for message m can end.
SendEffects(m, id) ==
    LET br == SendBranch(handshake_complete, close_sent) IN
    IF br = "handshake" THEN SendHandshake(Before, m, id)
    ELSE IF br = "open" THEN SendOpen(Before, m, id)
    ELSE { Raise(Before, "RuntimeError_after_close") }

SendBody(m, id) ==
    \E e \in SendEffects(m, id) :
        /\ handshake_complete' = e.hc
        /\ close_sent' = e.cs
        /\ queue' = e.q
        /\ cstate' = e.cst
        /\ cout' = e.co
        /\ written' = e.wr
        /\ writable' = e.wa
        /\ tclosing' = e.tc
        /\ closeCalls' = e.cc
        /\ closeIssued' = (closeIssued \/ m.type = "websocket.close")
        /\ last' = [id |-> id, type |-> m.type, payload |-> m.payload,
                    result |-> e.result, codec |-> e.codec,
                    branch |-> SendBranch(handshake_complete, close_sent),
                    resumed |-> id # nextId,
                    wrote |-> Len(e.wr) - Len(written),
                    enq |-> Len(e.q) - Len(queue),
                    flags |-> (e.hc # handshake_complete \/ e.cs # close_sent),
                    closes |-> e.cc - closeCalls,
                    afterClose |-> closeIssued,
                    lost |-> phase = "lost",
                    peer |-> peer_closed,
                    shut |-> nShut > 0]

\* Mutant of WaitReturnsAtOnce: send() does not wait for the gate.
WaitNeverSuspends(w) == TRUE

\* await self.writable.wait() (line 228): Event.wait() returns at once,
\* without yielding, exactly when the event is set.
WaitReturnsAtOnce(w) == w

\* The application calls send(message).
send_call(m) ==
    /\ app = "running"
    /\ Step
    /\ nextId' = nextId + 1
    /\ IF WaitReturnsAtOnce(writable)
       THEN SendBody(m, nextId) /\ UNCHANGED waiting
       ELSE /\ waiting' = Append(waiting, [id |-> nextId, m |-> m])
            /\ UNCHANGED <<handshake_complete, close_sent, queue, cstate, cout,
                           written, writable, tclosing, closeCalls, last, closeIssued>>
    /\ UNCHANGED <<phase, read_paused, peer_closed, app, rcv, woken, delivered,
                   nShut, list_ok, tasks, ended, discards, ev, lossRecv>>
    /\ PutsTrack

\* A send() whose wait was resolved runs on: Event.wait() does not look at
\* the flag again.
send_resume ==
    /\ woken # <<>>
    /\ SendBody(Head(woken).m, Head(woken).id)
    /\ woken' = Tail(woken)
    /\ UNCHANGED steps
    /\ UNCHANGED <<phase, read_paused, peer_closed, app, rcv, waiting, nextId,
                   delivered, nShut, list_ok, tasks, ended, discards, ev, lossRecv>>
    /\ PutsTrack

\* Mutant of TaskCloses: an error after the handshake leaves the transport open.
TaskClosesUnlessAccepted(how, hc) == IF ~hc THEN TRUE ELSE how = "value"

\* run_asgi(): the application task ends by raising ("raise"), by returning
\* None ("none") or by returning something else ("value"); lines 210-225.
TaskCloses(how, hc) ==
    IF how = "raise" THEN TRUE
    ELSE IF ~hc THEN TRUE
    ELSE how = "value"

\* The task ends only when no receive() or send() call of it is suspended.
run_asgi_end(how) ==
    /\ app = "running"
    /\ rcv = "idle"
    /\ waiting = <<>>
    /\ woken = <<>>
    /\ Step
    /\ app' = "done"
    /\ ended' = how
    /\ tclosing' = IF TaskCloses(how, handshake_complete) THEN TRUE ELSE tclosing
    /\ closeCalls' = IF TaskCloses(how, handshake_complete)
                     THEN closeCalls + 1 ELSE closeCalls
    /\ UNCHANGED <<phase, handshake_complete, close_sent, queue, writable,
                   read_paused, cstate, cout, peer_closed, written, rcv, waiting,
                   woken, nextId, delivered, last, closeIssued, nShut, list_ok,
                   tasks, discards, ev, puts, lossRecv>>

\* on_task_complete(task): the done callback of the run_asgi task, which the
\* event loop calls once after the task has ended; set.discard().
on_task_complete ==
    /\ app = "done"
    /\ discards = 0
    /\ discards' = discards + 1
    /\ tasks' = tasks \ {"run_asgi"}
    /\ UNCHANGED <<phase, handshake_complete, close_sent, queue, writable,
                   read_paused, cstate, cout, peer_closed, tclosing, closeCalls,
                   written, app, rcv, waiting, woken, nextId, delivered, last,
                   closeIssued, steps, nShut, list_ok, ended, ev, puts, lossRecv>>

\* ------------------------------------------------------------ specification
Next ==
    \/ \E ok \in BOOLEAN : connection_made(ok)
    \/ \E abrupt \in BOOLEAN : connection_lost(abrupt)
    \/ resume_writing
    \/ shutdown
    \/ \E kind \in {"request", "text", "binary", "ping", "close"} :
           \E d \in 1..MaxPayload : data_received(kind, d)
    \/ receive_call
    \/ receive_wake
    \/ \E m \in Intents : send_call(m)
    \/ send_resume
    \/ \E how \in {"raise", "none", "value"} : run_asgi_end(how)
    \/ on_task_complete

Spec == Init /\ [][Next]_vars

\* The event loop runs a task whose await was resolved, and the done
\* callback of a task that has ended.
FairSpec ==
    Spec /\ WF_vars(receive_wake) /\ WF_vars(send_resume) /\ WF_vars(on_task_complete)

\* A TLS transport (is_ssl(transport), line 66) passes the data it has
\* already decrypted to data_received() while close() shuts the connection
\* down; close() is the last statement of the code that calls it.
data_received_closing(kind, d) ==
    /\ phase = "made"
    /\ tclosing
    /\ ~read_paused
    /\ handle_events(kind, d)

TlsNext ==
    \/ Next
    \/ \E kind \in {"request", "text", "binary", "ping", "close"} :
           \E d \in 1..MaxPayload : data_received_closing(kind, d)

\* The connection over TLS.
TlsSpec == Init /\ [][TlsNext]_vars

\* ------------------------------------------------------------------ claims
\* Every inbound event put on the queue so far, in the order it was put.
Enqueued == delivered \o queue

IsDisconnect(e) == e.type = "websocket.disconnect"

\* C1: the inbound events hold at most one 'websocket.disconnect', and no
\* event of any kind is put (or returned by receive()) after it: a disconnect
\* is the last event ever enqueued.
C1_DisconnectIsLast ==
    \A i \in 1..Len(Enqueued) : IsDisconnect(Enqueued[i]) => i = Len(Enqueued)

\* C2: once the upgrade request has been observed, exactly one
\* 'websocket.connect' has been enqueued and it precedes every
\* 'websocket.receive' and 'websocket.disconnect' event, so receive()
\* returns it first.
C2_ConnectFirst ==
    app # "none" =>
        /\ Cardinality({i \in 1..Len(Enqueued) : Enqueued[i] = EvConnect}) = 1
        /\ Enqueued[1] = EvConnect

\* C3: a second shutdown() on the same connection calls transport.close()
\* no more and enqueues no second disconnect event.
C3_ShutdownIdempotent ==
    [][(nShut >= 1 /\ nShut' = nShut + 1) =>
           (closeCalls' = closeCalls /\ queue' = queue)]_vars

\* C4: transport.close() is called at most once on a connection.
C4_CloseAtMostOnce == closeCalls <= 1

\* C5: a 'websocket.send' passed to send() once the connection is CLOSE_SENT
\* (the application sent a close, the peer's close was handled, or shutdown()
\* ran) or CLOSED (connection_lost ran) makes no codec send_text/send_binary
\* call and writes no bytes.
C5_NoSendOnceClosing ==
    (last.type = "websocket.send"
        /\ (last.afterClose \/ last.peer \/ last.shut \/ last.lost)) =>
        (last.codec = "none" /\ last.wrote = 0)

\* C6: once a send() has taken a 'websocket.close' message (in the handshake
\* window or in the OPEN state), every send() that runs later, of any message
\* type, fails with the after-close RuntimeError, writes no bytes and enqueues
\* no inbound event.
C6_AfterCloseFails ==
    last.afterClose =>
        /\ last.result = "RuntimeError_after_close"
        /\ last.wrote = 0
        /\ last.enq = 0
        /\ last.codec = "none"

C6_Witness ==
    /\ last.afterClose
    /\ last.type = "websocket.send"
    /\ handshake_complete
    /\ \E i \in 1..Len(Enqueued) : Enqueued[i] = EvDisconnect("1000")

\* C7: while the handshake is not complete, a send() of a message other than
\* 'websocket.accept' and 'websocket.close' fails with the handshake
\* RuntimeError and leaves handshake_complete, close_sent, the inbound queue
\* and the transport as they were; accept and close are not refused.
C7_HandshakeWindow ==
    last.branch = "handshake" =>
        IF last.type \in {"websocket.accept", "websocket.close"}
        THEN last.result # "RuntimeError_handshake" /\ handshake_complete
        ELSE /\ last.result = "RuntimeError_handshake"
             /\ ~last.flags
             /\ last.enq = 0
             /\ last.wrote = 0
             /\ last.closes = 0

C7_Witness ==
    /\ last.branch = "handshake"
    /\ last.type = "websocket.send"
    /\ ~handshake_complete
    /\ queue # <<>>

\* C8 as stated: no chunk is written by a send() call while the gate is
\* closed (pause_writing seen, resume_writing not yet).
C8_NoSendWriteWhilePaused ==
    \A i \in 1..Len(written) : written[i].by = "send" => written[i].gate

\* C8 amended: a send() call starts writing only past the gate: its first
\* chunk is written with the gate open, or after the call was suspended and
\* resume_writing() resolved its wait; and a send() whose wait was resolved
\* runs on.
C8_GateAtEntry ==
    /\ [](\A i \in 1..Len(written) :
            (written[i].by = "send" /\ written[i].first) =>
                (written[i].gate \/ written[i].resumed))
    /\ [](\A i \in 1..Len(waiting) :
            \A j \in 1..Len(written) : written[j].caller # waiting[i].id)
    /\ (woken # <<>> ~> woken = <<>>)

C8_Witness ==
    /\ \E i \in 1..Len(written) : written[i].resumed /\ written[i].first
    /\ \E i \in 1..Len(written) : written[i].by = "send" /\ ~written[i].gate

\* C9: for intents I1 then I2 passed to send() in that order, every chunk the
\* codec produced for I1 is written before any chunk produced for I2: in the
\* bytes written and still buffered, the intents' chunks are in call order.
Wire == [i \in 1..Len(written) |-> written[i].sid] \o [i \in 1..Len(cout) |-> cout[i].sid]

C9_IntentOrder ==
    \A p, q \in 1..Len(Wire) :
        (p < q /\ Wire[p] # 0 /\ Wire[q] # 0) => Wire[p] <= Wire[q]

\* C10: a receive() that is suspended on an empty queue when the transport is
\* lost with an error eventually returns a 'websocket.disconnect' event that
\* carries no close code.
C10_AbruptLossUnblocks == (lossRecv = "pending") ~> (lossRecv = "disconnect_no_code")

C10_Witness == lossRecv = "disconnect_no_code" /\ phase = "lost" /\ rcv = "idle"

\* C11: the spawned application task is in the task registry for as long as
\* it runs, nothing but its completion takes it out, its completion callback
\* runs at most once, and once the task has ended it leaves the registry.
C11_TaskRegistered ==
    /\ [](app = "running" => "run_asgi" \in tasks)
    /\ []((app # "none" /\ "run_asgi" \notin tasks) => (app = "done" /\ discards = 1))
    /\ [](discards <= 1)
    /\ (app = "done") ~> (discards = 1 /\ "run_asgi" \notin tasks)

C11_Witness == app = "done" /\ discards = 1 /\ tasks = {} /\ ended # "no"

\* C12: a complete text or binary message that the codec reports on an open
\* connection puts exactly one 'websocket.receive' event, carrying that
\* message's payload, on the queue.
C12_EveryDataMessageEnqueued ==
    (ev.kind \in {"text", "binary"} /\ ev.open) => ev.enq = <<EvReceive(ev.d)>>

\* C13: receive() returns the events in the order in which they were put on
\* the queue, each of them once: what was returned so far, followed by what
\* the queue still holds, is the sequence of all puts.
C13_ReceiveInPutOrder == delivered \o queue = puts

C13_Witness ==
    /\ delivered = <<EvConnect, EvReceive(1)>>
    /\ queue # <<>>
    /\ Len(puts) >= 3

\* C14: a 'websocket.send' message that carries neither text nor bytes, taken
\* by send() while the handshake is complete and no close was sent, fails
\* with a TypeError: nothing is written, no codec send method is called, and
\* close_sent, handshake_complete and the queue are left as they were.
C14_SendWithoutData ==
    (last.type = "websocket.send" /\ last.payload = "none" /\ last.branch = "open")
        => /\ last.result = "TypeError"
           /\ last.wrote = 0
           /\ last.codec = "none"
           /\ last.enq = 0
           /\ ~last.flags
           /\ last.closes = 0

C14_Witness ==
    /\ last.type = "websocket.send"
    /\ last.payload = "none"
    /\ last.branch = "open"
    /\ last.result = "TypeError"
    /\ cstate = "OPEN"
    /\ cout # <<>>

\* C15: a protocol event that handle_events() takes after the transport was
\* closed has no effect: it puts no event on the queue, writes no bytes and
\* spawns no task.
C15_EventAfterCloseIsNoOp ==
    ev.closed => (ev.enq = <<>> /\ ev.wrote = 0 /\ ~ev.spawned)

\* C16: when the application task ends by raising, or returns before the
\* handshake was completed, or returns a value other than None, run_asgi
\* calls transport.close() and the transport is closing from then on.
C16_TaskEndClosesTransport ==
    [][(app = "running" /\ app' = "done"
           /\ (ended' = "raise" \/ ~handshake_complete \/ ended' = "value"))
       => (closeCalls' = closeCalls + 1 /\ tclosing')]_vars

C16_Witness ==
    /\ app = "done"
    /\ ended = "raise"
    /\ handshake_complete
    /\ phase = "made"
    /\ closeCalls = 1
    /\ tclosing

\* C17: after a 'websocket.close' taken by send() before the handshake was
\* completed, handshake_complete and close_sent are set, a disconnect event
\* without a close code was put, the transport is closed, and the bytes that
\* send() wrote are the 403 response alone: the 101 response is never written.
C17_RejectWritesOnly403 ==
    (last.branch = "handshake" /\ last.type = "websocket.close")
        => /\ handshake_complete /\ close_sent
           /\ last.enq = 1
           /\ \E i \in 1..Len(puts) : puts[i] = EvDisconnect("None")
           /\ last.closes = 1 /\ tclosing
           /\ \E i \in 1..Len(written) :
                  /\ written[i].kind = "resp403"
                  /\ written[i].by = "send"
                  /\ written[i].caller = last.id
           /\ \A i \in 1..Len(written) : written[i].kind # "resp101"

C19_FlagsMonotonic ==
    /\ [](close_sent => handshake_complete)
    /\ [][(handshake_complete => handshake_complete')
            /\ (close_sent => close_sent')]_vars

C19_Witness ==
    /\ close_sent
    /\ handshake_complete
    /\ last.branch = "after_close"
    /\ closeIssued

\* C20: send() writes no bytes to a transport on which transport.close() was
\* called before, whatever the message and the state of the connection.
C20_NoSendWriteAfterClose ==
    \A i \in 1..Len(written) : written[i].by = "send" => ~written[i].closed

=============================================================================
